---------------------------- MODULE Spec2Model ----------------------------
(***************************************************************************)
(* Machine recommendation API (src/app.py).                                *)
(*                                                                         *)
(* A request text is run through a spaCy pipeline with three entity-ruler  *)
(* patterns (BUDGET, LOAD, POWER); parse_text_nlp turns the entities into  *)
(* a parameter dict; recommend_machine filters the module-level DataFrame  *)
(* machines_df with the parameters and returns the first three rows;       *)
(* recommend_api is the Flask handler around both.                         *)
(*                                                                         *)
(* Representation.                                                         *)
(*  - A Python str is a sequence of one-character strings, so lower(),     *)
(*    the regular expression \d+ and int()/float() are computed character  *)
(*    by character.  A request text is the sequence of its                 *)
(*    whitespace-separated tokens.                                         *)
(*  - An optional value is None or Some(v).                                *)
(*  - A value of the load-capacity column is a reduced fraction            *)
(*    [num, den]; prices and budgets are integers (the floats of the code  *)
(*    are exact on the values used here).                                  *)
(*  - A DataFrame is [columns, index, data]; DataFrames live in a heap of  *)
(*    objects, and a Python name holds a reference into it.                *)
(***************************************************************************)
EXTENDS Integers, Sequences, FiniteSets, TLC

\* ------------------------------------------------------------------ bounds
\* Longest request text, in tokens.
MaxTokens == 4
\* Most rows of the catalog source file.
MaxRows == 4

\* ------------------------------------------------------- optional values
None == [none |-> TRUE]
Some(v) == [val |-> v]

\* ------------------------------------------------------------ Python str
Digits == {"0", "1", "2", "3", "4", "5", "6", "7", "8", "9"}

DigitVal(c) ==
  CASE c = "0" -> 0 [] c = "1" -> 1 [] c = "2" -> 2 [] c = "3" -> 3
    [] c = "4" -> 4 [] c = "5" -> 5 [] c = "6" -> 6 [] c = "7" -> 7
    [] c = "8" -> 8 [] c = "9" -> 9

\* str.lower() on one character.
LowerChar(c) ==
  CASE c = "A" -> "a" [] c = "B" -> "b" [] c = "C" -> "c" [] c = "D" -> "d"
    [] c = "E" -> "e" [] c = "F" -> "f" [] c = "G" -> "g" [] c = "H" -> "h"
    [] c = "I" -> "i" [] c = "J" -> "j" [] c = "K" -> "k" [] c = "L" -> "l"
    [] c = "M" -> "m" [] c = "N" -> "n" [] c = "O" -> "o" [] c = "P" -> "p"
    [] c = "Q" -> "q" [] c = "R" -> "r" [] c = "S" -> "s" [] c = "T" -> "t"
    [] c = "U" -> "u" [] c = "V" -> "v" [] c = "W" -> "w" [] c = "X" -> "x"
    [] c = "Y" -> "y" [] c = "Z" -> "z" [] OTHER -> c

\* str.lower().
StrLower(s) == [i \in 1..Len(s) |-> LowerChar(s[i])]

\* text.lower() on a text given as its tokens (line 45).
TextLower(tokens) == [i \in 1..Len(tokens) |-> StrLower(tokens[i])]

\* int(s) / float(s) of a string of digits.
RECURSIVE ToInt(_)
ToInt(s) ==
  IF s = <<>> THEN 0
  ELSE 10 * ToInt(SubSeq(s, 1, Len(s) - 1)) + DigitVal(s[Len(s)])

\* The characters of s that are not in drop, in order (str.replace(c, "")).
RECURSIVE Without(_, _)
Without(s, drop) ==
  IF s = <<>> THEN <<>>
  ELSE IF Head(s) \in drop THEN Without(Tail(s), drop)
  ELSE <<Head(s)>> \o Without(Tail(s), drop)

\* str.isdigit().
IsDigit(s) == s # <<>> /\ \A i \in 1..Len(s) : s[i] \in Digits

\* The longest run of digits that starts s.
RECURSIVE DigitRun(_)
DigitRun(s) ==
  IF s = <<>> \/ Head(s) \notin Digits THEN <<>>
  ELSE <<Head(s)>> \o DigitRun(Tail(s))

\* re.search(r'\d+', s): the leftmost longest run of digits, None without one.
RECURSIVE ReSearchDigits(_)
ReSearchDigits(s) ==
  IF s = <<>> THEN None
  ELSE IF Head(s) \in Digits THEN Some(DigitRun(s))
  ELSE ReSearchDigits(Tail(s))

\* --------------------------------------------------- words of the patterns
W_lakh == <<"l", "a", "k", "h">>
W_lakhs == <<"l", "a", "k", "h", "s">>
W_lac == <<"l", "a", "c">>
W_ton == <<"t", "o", "n">>
W_tons == <<"t", "o", "n", "s">>
W_t == <<"t">>
W_tonne == <<"t", "o", "n", "n", "e">>
W_diesel == <<"d", "i", "e", "s", "e", "l">>
W_electric == <<"e", "l", "e", "c", "t", "r", "i", "c">>
W_hybrid == <<"h", "y", "b", "r", "i", "d">>
W_ten == <<"t", "e", "n">>

\* The unit and keyword lists of the three patterns (lines 12-14).
BudgetUnits == {W_lakh, W_lakhs, W_lac}
LoadUnits == {W_ton, W_tons, W_t, W_tonne}
PowerWords == {W_diesel, W_electric, W_hybrid}

\* Number words the LIKE_NUM attribute accepts (those the texts here use).
NumWords == {W_ten}

\* LIKE_NUM of a token: digits once a leading sign, "," and "." are taken
\* out, or a number word.
LikeNum(tok) ==
  LET unsigned == IF tok # <<>> /\ Head(tok) \in {"+", "-", "~"}
                  THEN Tail(tok) ELSE tok
      plain == Without(unsigned, {",", "."})
  IN IsDigit(plain) \/ StrLower(unsigned) \in NumWords

\* ent.text of a span of two tokens.
SpanText(a, b) == a \o <<" ">> \o b

\* doc.ents restricted to the labels of the entity ruler, in document
\* order: number + unit is BUDGET or LOAD, a power keyword is POWER.
RECURSIVE Ents(_)
Ents(tokens) ==
  IF tokens = <<>> THEN <<>>
  ELSE IF Len(tokens) >= 2 /\ LikeNum(tokens[1]) /\ tokens[2] \in BudgetUnits
    THEN <<[label |-> "BUDGET", text |-> SpanText(tokens[1], tokens[2])]>>
         \o Ents(SubSeq(tokens, 3, Len(tokens)))
  ELSE IF Len(tokens) >= 2 /\ LikeNum(tokens[1]) /\ tokens[2] \in LoadUnits
    THEN <<[label |-> "LOAD", text |-> SpanText(tokens[1], tokens[2])]>>
         \o Ents(SubSeq(tokens, 3, Len(tokens)))
  ELSE IF tokens[1] \in PowerWords
    THEN <<[label |-> "POWER", text |-> tokens[1]]>> \o Ents(Tail(tokens))
  ELSE Ents(Tail(tokens))

\* One lakh (line 49).
Lakh == 100000

\* The body of the loop over doc.ents (lines 48-53).
ParseEnt(params, ent) ==
  IF ent.label = "BUDGET" /\ ReSearchDigits(ent.text) # None
    THEN [params EXCEPT !.budget = Some(ToInt(ReSearchDigits(ent.text).val) * Lakh)]
  ELSE IF ent.label = "LOAD" /\ ReSearchDigits(ent.text) # None
    THEN [params EXCEPT !.load = Some(ToInt(ReSearchDigits(ent.text).val))]
  ELSE IF ent.label = "POWER"
    THEN [params EXCEPT !.power = Some(ent.text)]
  ELSE params

\* The loop over doc.ents, first entity first (line 47).
RECURSIVE ParseEnts(_, _)
ParseEnts(params, ents) ==
  IF ents = <<>> THEN params
  ELSE ParseEnts(ParseEnt(params, Head(ents)), Tail(ents))

\* parse_text_nlp(text) (lines 43-54).
parse_text_nlp(text) ==
  ParseEnts([budget |-> None, load |-> None, power |-> None],
            Ents(TextLower(text)))

\* ------------------------------------------------------------- fractions
RECURSIVE Gcd(_, _)
Gcd(a, b) == IF b = 0 THEN a ELSE Gcd(b, a % b)

\* The fraction n/d (n >= 0, d > 0) in lowest terms.
Frac(n, d) ==
  LET g == Gcd(n, d) IN [num |-> n \div g, den |-> d \div g]

FracAdd(a, b) == Frac(a.num * b.den + b.num * a.den, a.den * b.den)
FracDiv(a, k) == Frac(a.num, a.den * k)
\* a >= k and a > k, for an integer k.
FracGe(a, k) == a.num >= k * a.den
FracGt(a, k) == a.num > k * a.den

\* ------------------------------------------------------------ DataFrames
\* pd.DataFrame() (line 41).
EmptyFrame == [columns |-> {}, index |-> <<>>, data |-> <<>>]

\* DataFrame.empty: an axis of length 0.  (DfEmptyNever: the check left out.)
DfEmptyNever(f) == FALSE
DfEmpty(f) == f.columns = {} \/ f.index = <<>>

\* df[mask]: the rows of f, with their index labels, whose mask entry holds.
RECURSIVE SelectFrom(_, _, _)
SelectFrom(f, mask, i) ==
  IF i > Len(f.data) THEN [f EXCEPT !.index = <<>>, !.data = <<>>]
  ELSE LET rest == SelectFrom(f, mask, i + 1)
       IN IF mask[i]
          THEN [rest EXCEPT !.index = <<f.index[i]>> \o @,
                            !.data = <<f.data[i]>> \o @]
          ELSE rest

Select(f, mask) == SelectFrom(f, mask, 1)

\* df.head(n).  (TailRows: the last n rows instead of the first.)
TailRows(f, n) ==
  LET m == Len(f.data)
      k == IF m < n THEN m ELSE n
  IN [f EXCEPT !.index = SubSeq(f.index, m - k + 1, m),
               !.data = SubSeq(f.data, m - k + 1, m)]
HeadRows(f, n) ==
  LET k == IF Len(f.data) < n THEN Len(f.data) ELSE n
  IN [f EXCEPT !.index = SubSeq(f.index, 1, k), !.data = SubSeq(f.data, 1, k)]

\* DataFrame.to_dict(orient='records'): the rows, without the index.
ToDictRecords(f) == f.data

\* The sum of a column of fractions.
RECURSIVE ColumnSum(_, _)
ColumnSum(data, c) ==
  IF data = <<>> THEN Frac(0, 1)
  ELSE FracAdd(Head(data)[c], ColumnSum(Tail(data), c))

\* ------------------------------------------------------ loading (25-41)
PlaceholderDescription == "A reliable and powerful machine."
\* power_types (line 34).
power_types == <<W_diesel, W_electric, W_hybrid>>
\* The constant term of a synthesized price (line 32).
BasePrice == 500000

\* Columns of machines_df for a source file with the given columns:
\* 'Payload (kg)' renamed (line 28), the three required columns added.
FrameColumns(cols) ==
  ((cols \ {"Payload (kg)"})
     \cup (IF "Payload (kg)" \in cols THEN {"LoadCapacity"} ELSE {}))
  \cup {"Price", "PowerType", "Description"}

\* Row i (1-based) of machines_df; weights are even, so 1.5 * weight is an
\* integer.
FrameRow(file, i) ==
  LET src == file.rows[i]
      weight == IF "Weight (kg)" \in file.columns THEN src["Weight (kg)"] ELSE 0
  IN [c \in FrameColumns(file.columns) |->
        CASE c = "LoadCapacity" -> Frac(src["Payload (kg)"], 1)
          [] c = "Price" /\ "Price" \notin file.columns ->
               (weight * 3) \div 2 + BasePrice
          [] c = "PowerType" /\ "PowerType" \notin file.columns ->
               power_types[((i - 1) % Len(power_types)) + 1]
          [] c = "Description" /\ "Description" \notin file.columns ->
               PlaceholderDescription
          [] OTHER -> src[c]]

\* The module-level try/except: machines_df after startup.
LoadCatalog(file) ==
  IF ~file.exists THEN EmptyFrame
  ELSE [columns |-> FrameColumns(file.columns),
        index |-> [i \in 1..Len(file.rows) |-> i - 1],
        data |-> [i \in 1..Len(file.rows) |-> FrameRow(file, i)]]

\* --------------------------------------------- recommend_machine (56-74)
\* The threshold on the column mean (line 64), the divisor (line 65) and
\* the number of rows returned (line 74).
MeanThreshold == 1000
KgPerTon == 1000
HeadCount == 3

\* df['LoadCapacity'].mean() > 1000, as sum > 1000 * count.  (MeanAtLeast:
\* >= in place of >.)
MeanAtLeast(f) ==
  FracGe(ColumnSum(f.data, "LoadCapacity"), MeanThreshold * Len(f.data))
MeanExceeds(f) ==
  FracGt(ColumnSum(f.data, "LoadCapacity"), MeanThreshold * Len(f.data))

\* The condition of line 64.
NeedsConversion(f) == "LoadCapacity" \in f.columns /\ MeanExceeds(f)

\* df['LoadCapacity'] = df['LoadCapacity'] / 1000 (line 65), in place.
ConvertLoad(f) ==
  [f EXCEPT !.data =
     [i \in 1..Len(f.data) |->
        [c \in f.columns |->
           IF c = "LoadCapacity" THEN FracDiv(f.data[i][c], KgPerTon)
           ELSE f.data[i][c]]]]

\* Lines 64-65 on the object df refers to.
Normalize(f) == IF NeedsConversion(f) THEN ConvertLoad(f) ELSE f

\* params.get(k) is not None (lines 67, 69, 71).  (BudgetTruthy: the test
\* `if params.get("budget"):`, which a budget of 0 fails.)
BudgetTruthy(p) == p.budget # None /\ p.budget.val # 0
BudgetGiven(p) == p.budget # None
LoadGiven(p) == p.load # None
PowerGiven(p) == p.power # None

\* A column lookup of lines 68-72 raises KeyError.
MissingColumn(f, p) ==
  \/ BudgetGiven(p) /\ "Price" \notin f.columns
  \/ LoadGiven(p) /\ "LoadCapacity" \notin f.columns
  \/ PowerGiven(p) /\ "PowerType" \notin f.columns

\* Line 68.  (ByBudgetFlipped: the comparison reversed.)
ByBudgetFlipped(f, p) ==
  IF BudgetGiven(p)
  THEN Select(f, [i \in 1..Len(f.data) |-> f.data[i]["Price"] >= p.budget.val])
  ELSE f
ByBudget(f, p) ==
  IF BudgetGiven(p)
  THEN Select(f, [i \in 1..Len(f.data) |-> f.data[i]["Price"] <= p.budget.val])
  ELSE f

\* Line 70.
ByLoad(f, p) ==
  IF LoadGiven(p)
  THEN Select(f, [i \in 1..Len(f.data) |->
                    FracGe(f.data[i]["LoadCapacity"], p.load.val)])
  ELSE f

\* Line 72.
ByPower(f, p) ==
  IF PowerGiven(p)
  THEN Select(f, [i \in 1..Len(f.data) |->
                    StrLower(f.data[i]["PowerType"]) = p.power.val])
  ELSE f

\* Lines 67-72.
FilterRows(f, p) == ByPower(ByLoad(ByBudget(f, p), p), p)

\* ------------------------------------------------------------------ state
VARIABLES
  heap,           \* the DataFrame objects: reference -> DataFrame or None
  pc,             \* per request thread: where it is in recommend_api
  query,          \* per thread: the local `query`
  parsed_params,  \* per thread: the parameter dict
  df,             \* per thread: the local `df` of recommend_machine
  results,        \* per thread: the return value of recommend_machine
  exc,            \* per thread: the exception in flight
  response        \* per thread: the response of recommend_api

vars == <<heap, pc, query, parsed_params, df, results, exc, response>>
locals == <<query, parsed_params, df, results, exc, response>>

Threads == {1, 2}

\* The object the module-level name machines_df refers to.
machines_df == <<"module", 0>>
Refs == {machines_df} \cup ({"copy", "view"} \X Threads)

\* DataFrame.copy() (line 61): the reference of a new object of thread t.
\* (DataFrameAlias: df = machines_df, the same object.)
DataFrameAlias(ref, t) == ref
DataFrameCopy(ref, t) == <<"copy", t>>

\* Lines 58-61: the empty check and the copy.
RmCopy(t) ==
  /\ pc[t] = "recommend"
  /\ IF DfEmpty(heap[machines_df])
     THEN /\ results' = [results EXCEPT ![t] = Some(<<>>)]
          /\ pc' = [pc EXCEPT ![t] = "returned"]
          /\ UNCHANGED <<heap, df>>
     ELSE LET new == DataFrameCopy(machines_df, t)
          IN /\ heap' = [heap EXCEPT ![new] = heap[machines_df]]
             /\ df' = [df EXCEPT ![t] = Some(new)]
             /\ pc' = [pc EXCEPT ![t] = "normalize"]
             /\ UNCHANGED results
  /\ UNCHANGED <<query, parsed_params, exc, response>>

\* Lines 63-65: the unit conversion, written into the object df refers to.
RmNormalize(t) ==
  /\ pc[t] = "normalize"
  /\ heap' = [heap EXCEPT ![df[t].val] = Normalize(@)]
  /\ pc' = [pc EXCEPT ![t] = "filter"]
  /\ UNCHANGED locals

\* Lines 67-74: the three filters (each binds df to a new object), head(3)
\* and to_dict; a missing column raises KeyError.
RmFilter(t) ==
  /\ pc[t] = "filter"
  /\ LET f == heap[df[t].val]
         p == parsed_params[t]
         filtered == BudgetGiven(p) \/ LoadGiven(p) \/ PowerGiven(p)
         view == IF filtered THEN <<"view", t>> ELSE df[t].val
     IN IF MissingColumn(f, p)
        THEN /\ exc' = [exc EXCEPT ![t] =
                          [type |-> "KeyError", raised_in |-> "recommend_machine"]]
             /\ pc' = [pc EXCEPT ![t] = "raised"]
             /\ UNCHANGED <<heap, df, results>>
        ELSE /\ heap' = [heap EXCEPT ![view] = FilterRows(f, p)]
             /\ df' = [df EXCEPT ![t] = Some(view)]
             /\ results' = [results EXCEPT ![t] =
                              Some(ToDictRecords(HeadRows(FilterRows(f, p), HeadCount)))]
             /\ pc' = [pc EXCEPT ![t] = "returned"]
             /\ UNCHANGED exc
  /\ UNCHANGED <<query, parsed_params, response>>

\* ------------------------------------------------ recommend_api (77-109)
\* `not query` (line 92): a missing key, an empty string, the number 0.
Falsy(q) ==
  \/ q = None
  \/ q.val = [type |-> "str", text |-> <<>>]
  \/ q.val = [type |-> "int", n |-> 0]

\* Lines 101-105.
OkResponse(q, params, recs) ==
  [status |-> 200, query |-> q, extracted_parameters |-> params,
   recommendations |-> recs]

\* Line 109.  (InternalErrorWithList: an empty list added to the body.)
InternalErrorWithList(e) ==
  [status |-> 500, error |-> "An internal server error occurred",
   details |-> e.type, recommendations |-> <<>>]
InternalError(e) ==
  [status |-> 500, error |-> "An internal server error occurred",
   details |-> e.type]

\* Lines 85-93: the two validations.  A JSON body that is no object has no
\* .get: the AttributeError of line 89 is raised outside the try block and
\* Flask answers it with its own 500 page.
Receive(t, body) ==
  /\ pc[t] = "idle"
  /\ IF ~body.is_json
     THEN /\ response' = [response EXCEPT ![t] =
                            [status |-> 400, error |-> "Request must be JSON"]]
          /\ pc' = [pc EXCEPT ![t] = "responded"]
          /\ UNCHANGED query
     ELSE IF ~body.is_object
     THEN /\ response' = [response EXCEPT ![t] =
                            [status |-> 500, unhandled |-> "AttributeError"]]
          /\ pc' = [pc EXCEPT ![t] = "responded"]
          /\ UNCHANGED query
     ELSE IF Falsy(body.query)
     THEN /\ response' = [response EXCEPT ![t] =
                            [status |-> 400,
                             error |-> "Missing 'query' key in request body"]]
          /\ pc' = [pc EXCEPT ![t] = "responded"]
          /\ query' = [query EXCEPT ![t] = body.query]
     ELSE /\ query' = [query EXCEPT ![t] = body.query]
          /\ pc' = [pc EXCEPT ![t] = "parse"]
          /\ UNCHANGED response
  /\ UNCHANGED <<heap, parsed_params, df, results, exc>>

\* Line 97: parse_text_nlp(query); text.lower() raises on a query that is
\* no string.
ParseTextNlp(t) ==
  /\ pc[t] = "parse"
  /\ IF query[t].val.type = "str"
     THEN /\ parsed_params' = [parsed_params EXCEPT ![t] =
                                 parse_text_nlp(query[t].val.text)]
          /\ pc' = [pc EXCEPT ![t] = "recommend"]
          /\ UNCHANGED exc
     ELSE /\ exc' = [exc EXCEPT ![t] =
                       [type |-> "AttributeError", raised_in |-> "parse_text_nlp"]]
          /\ pc' = [pc EXCEPT ![t] = "raised"]
          /\ UNCHANGED parsed_params
  /\ UNCHANGED <<heap, query, df, results, response>>

\* Lines 101-105: the success response.
Respond(t) ==
  /\ pc[t] = "returned"
  /\ response' = [response EXCEPT ![t] =
                    OkResponse(query[t].val, parsed_params[t], results[t].val)]
  /\ pc' = [pc EXCEPT ![t] = "responded"]
  /\ UNCHANGED <<heap, query, parsed_params, df, results, exc>>

\* Lines 107-109: the except clause.
Except(t) ==
  /\ pc[t] = "raised"
  /\ response' = [response EXCEPT ![t] = InternalError(exc[t])]
  /\ pc' = [pc EXCEPT ![t] = "responded"]
  /\ UNCHANGED <<heap, query, parsed_params, df, results, exc>>

\* The response is sent: the locals and the objects of the call are gone.
Done(t) ==
  /\ pc[t] = "responded"
  /\ heap' = [heap EXCEPT ![<<"copy", t>>] = None, ![<<"view", t>>] = None]
  /\ pc' = [pc EXCEPT ![t] = "idle"]
  /\ query' = [query EXCEPT ![t] = None]
  /\ parsed_params' = [parsed_params EXCEPT ![t] = None]
  /\ df' = [df EXCEPT ![t] = None]
  /\ results' = [results EXCEPT ![t] = None]
  /\ exc' = [exc EXCEPT ![t] = None]
  /\ response' = [response EXCEPT ![t] = None]

\* ------------------------------------------------------- catalog sources
AllColumns == {"Payload (kg)", "Weight (kg)", "Price", "PowerType", "Description"}

W_Diesel == <<"D", "i", "e", "s", "e", "l">>

\* A row of the source file; its price is the one line 32 would synthesize
\* from its weight.
MachineRow(payload, weight, power) ==
  [c \in AllColumns |->
     CASE c = "Payload (kg)" -> payload
       [] c = "Weight (kg)" -> weight
       [] c = "Price" -> (weight * 3) \div 2 + BasePrice
       [] c = "PowerType" -> power
       [] c = "Description" -> "Wheel loader"]

RowA == MachineRow(6000, 0, W_Diesel)
RowB == MachineRow(6000, 200000, W_Diesel)
RowC == MachineRow(3000, 0, W_Diesel)
RowD == MachineRow(6000, 0, W_electric)
RowE == MachineRow(0, 200000, W_electric)
RowF == MachineRow(0, 0, W_Diesel)
RowValues == {RowA, RowB, RowC, RowD, RowE, RowF}

\* The column sets of the source files: all but Description; no payload
\* column; payload and weight only; payload only.
ColumnSets ==
  { {"Payload (kg)", "Weight (kg)", "Price", "PowerType"},
    {"Weight (kg)", "Price", "PowerType", "Description"},
    {"Payload (kg)", "Weight (kg)"},
    {"Payload (kg)"} }

MissingFile == [exists |-> FALSE]
FileOf(cols, rows) ==
  [exists |-> TRUE, columns |-> cols,
   rows |-> [i \in 1..Len(rows) |-> [c \in cols |-> rows[i][c]]]]

\* Every source file of at most MaxRows rows.
Files ==
  {MissingFile} \cup
  {FileOf(cols, rows) : cols \in ColumnSets,
                        rows \in UNION {[1..n -> RowValues] : n \in 0..MaxRows}}

\* Source files for the request-level specifications: none, a header
\* without rows, a catalog in kilograms, one whose mean is exactly 1000, one
\* without a payload column.
SampleFiles ==
  { MissingFile,
    FileOf({"Payload (kg)", "Weight (kg)", "Price", "PowerType"}, <<>>),
    FileOf({"Payload (kg)", "Weight (kg)", "Price", "PowerType"},
           <<RowA, RowC, RowD, RowB, RowA, RowA>>),
    FileOf({"Payload (kg)", "Weight (kg)"}, <<RowE, RowF, RowC>>),
    FileOf({"Weight (kg)", "Price", "PowerType", "Description"},
           <<RowA, RowB, RowD>>) }

\* ---------------------------------------------------------------- inputs
W_0 == <<"0">>
W_5 == <<"5">>
W_10 == <<"1", "0">>
W_15 == <<"1", "5">>
W_1p5 == <<"1", ".", "5">>

\* The tokens of the texts given to parse_text_nlp.
Vocabulary == {W_0, W_5, W_1p5, W_ten, W_lakhs, W_ton, W_Diesel, W_electric}
Texts == UNION {[1..n -> Vocabulary] : n \in 0..MaxTokens}

\* The parameter dicts given to recommend_machine.
ParsedQueries ==
  [budget : {None, Some(0), Some(5 * Lakh)},
   load : {None, Some(5)},
   power : {None, Some(W_diesel)}]

W_show == <<"s", "h", "o", "w">>
W_me == <<"m", "e">>
W_a == <<"a">>
W_machine == <<"m", "a", "c", "h", "i", "n", "e">>
W_under == <<"u", "n", "d", "e", "r">>
W_loader == <<"l", "o", "a", "d", "e", "r">>
Str(tokens) == Some([type |-> "str", text |-> tokens])

\* Request bodies: not JSON, a JSON array, objects without a query, with an
\* empty one, with a number, and with texts (the first is the example of
\* the docstring of recommend_api).
SampleBodies ==
  { [is_json |-> FALSE],
    [is_json |-> TRUE, is_object |-> FALSE],
    [is_json |-> TRUE, is_object |-> TRUE, query |-> None],
    [is_json |-> TRUE, is_object |-> TRUE, query |-> Str(<<>>)],
    [is_json |-> TRUE, is_object |-> TRUE, query |-> Some([type |-> "int", n |-> 5])] }
  \cup
  { [is_json |-> TRUE, is_object |-> TRUE, query |-> Str(text)] : text \in
      { <<W_show, W_me, W_a, W_10, W_ton, W_diesel, W_machine, W_under, W_15, W_lakhs>>,
        <<W_5, W_ton, W_Diesel, W_loader>>,
        <<W_0, W_lakhs>>,
        <<W_electric, W_loader>>,
        <<W_loader>> } }

\* -------------------------------------------------------- specifications
NoLocals ==
  /\ query = [t \in Threads |-> None]
  /\ parsed_params = [t \in Threads |-> None]
  /\ df = [t \in Threads |-> None]
  /\ results = [t \in Threads |-> None]
  /\ exc = [t \in Threads |-> None]
  /\ response = [t \in Threads |-> None]

HeapAfterLoad(file) ==
  [r \in Refs |-> IF r = machines_df THEN LoadCatalog(file) ELSE None]

\* The server after startup, serving requests on two threads.
Init ==
  /\ \E file \in SampleFiles : heap = HeapAfterLoad(file)
  /\ pc = [t \in Threads |-> "idle"]
  /\ NoLocals

Next ==
  \E t \in Threads :
    \/ \E body \in SampleBodies : Receive(t, body)
    \/ ParseTextNlp(t)
    \/ RmCopy(t)
    \/ RmNormalize(t)
    \/ RmFilter(t)
    \/ Respond(t)
    \/ Except(t)
    \/ Done(t)

Spec == Init /\ [][Next]_vars

\* One call recommend_machine(params), for every catalog of at most
\* MaxRows rows.
InitFilter ==
  /\ \E file \in Files : heap = HeapAfterLoad(file)
  /\ pc = [t \in Threads |-> IF t = 1 THEN "recommend" ELSE "idle"]
  /\ \E p \in ParsedQueries :
       parsed_params = [t \in Threads |-> IF t = 1 THEN p ELSE None]
  /\ query = [t \in Threads |-> None]
  /\ df = [t \in Threads |-> None]
  /\ results = [t \in Threads |-> None]
  /\ exc = [t \in Threads |-> None]
  /\ response = [t \in Threads |-> None]

NextFilter == \E t \in Threads : RmCopy(t) \/ RmNormalize(t) \/ RmFilter(t)

SpecFilter == InitFilter /\ [][NextFilter]_vars

\* parse_text_nlp(text) followed by recommend_machine, for every text of at
\* most MaxTokens tokens.
InitPipeline ==
  /\ \E file \in SampleFiles : heap = HeapAfterLoad(file)
  /\ pc = [t \in Threads |-> IF t = 1 THEN "parse" ELSE "idle"]
  /\ \E text \in Texts :
       query = [t \in Threads |-> IF t = 1 THEN Str(text) ELSE None]
  /\ parsed_params = [t \in Threads |-> None]
  /\ df = [t \in Threads |-> None]
  /\ results = [t \in Threads |-> None]
  /\ exc = [t \in Threads |-> None]
  /\ response = [t \in Threads |-> None]

NextPipeline ==
  \E t \in Threads :
    ParseTextNlp(t) \/ RmCopy(t) \/ RmNormalize(t) \/ RmFilter(t)

SpecPipeline == InitPipeline /\ [][NextPipeline]_vars

\* ============================================================ properties
\* What the properties speak of, stated on the catalog as loaded and on the
\* request text, independently of the operators of recommend_machine and
\* parse_text_nlp.

Catalog == heap[machines_df]
CatalogRows == Len(Catalog.data)

RECURSIVE TotalLoad(_)
TotalLoad(i) ==
  IF i = 0 THEN Frac(0, 1)
  ELSE FracAdd(Catalog.data[i]["LoadCapacity"], TotalLoad(i - 1))

\* The mean of the stored load capacities is strictly above 1000.
CatalogInKg ==
  /\ "LoadCapacity" \in Catalog.columns
  /\ CatalogRows > 0
  /\ FracGt(TotalLoad(CatalogRows), 1000 * CatalogRows)

\* The load of catalog row i that the comparison is to use.
ComparedLoad(i) ==
  IF CatalogInKg THEN FracDiv(Catalog.data[i]["LoadCapacity"], 1000)
  ELSE Catalog.data[i]["LoadCapacity"]

\* Catalog row i satisfies every constraint present in p.
RowSatisfies(i, p) ==
  /\ p.budget # None => Catalog.data[i]["Price"] <= p.budget.val
  /\ p.load # None => FracGe(ComparedLoad(i), p.load.val)
  /\ p.power # None =>
       StrLower(Catalog.data[i]["PowerType"]) = StrLower(p.power.val)

\* The numbers of the catalog rows from i on that satisfy p, in order.
RECURSIVE MatchingFrom(_, _)
MatchingFrom(i, p) ==
  IF i > CatalogRows THEN <<>>
  ELSE (IF RowSatisfies(i, p) THEN <<i>> ELSE <<>>) \o MatchingFrom(i + 1, p)

Matching(p) == MatchingFrom(1, p)

Min(a, b) == IF a < b THEN a ELSE b

Returned(t) == pc[t] = "returned"

\* The numbers of the catalog rows the returned records were taken from
\* (the index labels of df.head(3), which to_dict drops).
Selected(t) ==
  IF df[t] = None THEN <<>>
  ELSE [k \in 1..Len(results[t].val) |-> heap[df[t].val].index[k] + 1]

\* C1: recommend_machine returns at most 3 records, and every returned
\* record satisfies each constraint present in the query: price <= budget,
\* load capacity after unit normalization >= load, power type equal to
\* power up to case.
C1_AtMostThreeAllSatisfy ==
  \A t \in Threads :
    Returned(t) =>
      /\ Len(results[t].val) <= 3
      /\ \A k \in 1..Len(results[t].val) :
           LET rec == results[t].val[k]
               p == parsed_params[t]
           IN /\ p.budget # None => rec["Price"] <= p.budget.val
              /\ p.load # None => FracGe(ComparedLoad(Selected(t)[k]), p.load.val)
              /\ p.power # None =>
                   StrLower(rec["PowerType"]) = StrLower(p.power.val)

\* Three records returned from a larger catalog under a query that sets all
\* three constraints, with a row of the catalog left out.
C1_Witness ==
  /\ Returned(1)
  /\ Len(results[1].val) = 3
  /\ parsed_params[1].budget # None
  /\ parsed_params[1].load # None
  /\ parsed_params[1].power # None
  /\ Len(Matching(parsed_params[1])) < CatalogRows

\* C2: the result is exactly the first min(3, m) of the m catalog rows
\* that satisfy every constraint present, in catalog order.
C2_FirstThreeInCatalogOrder ==
  \A t \in Threads :
    Returned(t) =>
      LET m == Matching(parsed_params[t])
          n == Min(3, Len(m))
      IN /\ Len(results[t].val) = n
         /\ Selected(t) = SubSeq(m, 1, n)
         /\ \A k \in 1..n :
              /\ results[t].val[k]["Price"] = Catalog.data[m[k]]["Price"]
              /\ results[t].val[k]["PowerType"] = Catalog.data[m[k]]["PowerType"]

\* More than three rows match a query with a power constraint, and three
\* records are returned.
C2_Witness ==
  /\ Returned(1)
  /\ Len(Matching(parsed_params[1])) > 3
  /\ Len(results[1].val) = 3
  /\ parsed_params[1].power # None

\* C3: the comparison uses LoadCapacity / 1000 for every row exactly when
\* the mean of the stored column over the whole catalog is strictly above
\* 1000, and the stored value otherwise (a mean of exactly 1000 included).
C3_KgExactlyWhenMeanAbove1000 ==
  \A t \in Threads :
    /\ (pc[t] = "filter" /\ "LoadCapacity" \in Catalog.columns) =>
         \A i \in 1..CatalogRows :
           heap[df[t].val].data[i]["LoadCapacity"] = ComparedLoad(i)
    /\ (Returned(t) /\ parsed_params[t].load # None
          /\ parsed_params[t].budget = None /\ parsed_params[t].power = None) =>
         LET ok == {i \in 1..CatalogRows :
                      FracGe(ComparedLoad(i), parsed_params[t].load.val)}
         IN /\ \A k \in 1..Len(results[t].val) : Selected(t)[k] \in ok
            /\ Len(results[t].val) = Min(3, Cardinality(ok))

\* A catalog with a mean above 1000: the query load = 5 returns a row that
\* stores 6000 and leaves out a row that stores 3000.
C3_Witness ==
  /\ Returned(1)
  /\ parsed_params[1] = [budget |-> None, load |-> Some(5), power |-> None]
  /\ CatalogInKg
  /\ \E k \in 1..Len(results[1].val) :
       Catalog.data[Selected(1)[k]]["LoadCapacity"] = Frac(6000, 1)
  /\ \E i \in 1..CatalogRows :
       /\ Catalog.data[i]["LoadCapacity"] = Frac(3000, 1)
       /\ \A k \in 1..Len(results[1].val) : Selected(1)[k] # i

\* C10 as claimed: every returned record equals, in every column, the
\* catalog row it was selected from.
C10_RecordsEqualCatalogRows ==
  \A t \in Threads :
    Returned(t) =>
      \A k \in 1..Len(results[t].val) :
        results[t].val[k] = Catalog.data[Selected(t)[k]]

\* C4: no step of any request changes the object machines_df refers to:
\* the catalog keeps the value it had at load time, whatever the requests
\* and their interleaving; the division by 1000 is written to the copy.
C4_CatalogNeverMutated == [][heap[machines_df]' = heap[machines_df]]_vars

\* Both threads are past the unit conversion, each on a copy that now
\* differs from the catalog.
C4_Witness ==
  /\ pc[1] = "filter"
  /\ pc[2] = "filter"
  /\ heap[df[1].val] # Catalog
  /\ heap[df[2].val] # Catalog
  /\ df[1] # df[2]

\* A request that carries a non-empty query string.
TextQuery(t) ==
  /\ query[t] # None
  /\ query[t].val.type = "str"
  /\ query[t].val.text # <<>>

\* C5: with the source file missing the catalog is empty, and on an empty
\* catalog recommend_machine returns the empty list and never raises, so
\* every query is answered 200 with zero recommendations.
C5_EmptyCatalogZeroResults ==
  \A t \in Threads :
    CatalogRows = 0 =>
      /\ Returned(t) => results[t] = Some(<<>>)
      /\ exc[t] # None => exc[t].raised_in # "recommend_machine"
      /\ (pc[t] = "responded" /\ TextQuery(t)) =>
           /\ response[t].status = 200
           /\ response[t].recommendations = <<>>

\* The file was missing, and a query with a budget, a load and a power
\* constraint has been answered.
C5_Witness ==
  /\ Catalog = EmptyFrame
  /\ pc[1] = "responded"
  /\ response[1].status = 200
  /\ response[1].recommendations = <<>>
  /\ response[1].extracted_parameters.budget # None
  /\ response[1].extracted_parameters.load # None
  /\ response[1].extracted_parameters.power # None

\* The catalog has every column the constraints of p read.
ColumnsPresent(p) ==
  /\ p.budget # None => "Price" \in Catalog.columns
  /\ p.load # None => "LoadCapacity" \in Catalog.columns
  /\ p.power # None => "PowerType" \in Catalog.columns

\* C9: a query on an empty catalog, a query in which no entity is matched
\* and a query no catalog row satisfies are answered 200 with the
\* extracted parameters and a list of at most three records (empty in the
\* first and the last case); the internal-error response is produced only
\* by an exception raised in parse_text_nlp or recommend_machine, and no
\* response other than a 200 carries a recommendation list.
C9_AbsenceIsSuccess ==
  \A t \in Threads :
    pc[t] = "responded" =>
      LET r == response[t]
          p == parse_text_nlp(query[t].val.text)
          success == /\ r.status = 200
                     /\ r.extracted_parameters = p
                     /\ Len(r.recommendations) <= 3
      IN /\ (TextQuery(t) /\ CatalogRows = 0) =>
              success /\ r.recommendations = <<>>
         /\ (TextQuery(t) /\ p = [budget |-> None, load |-> None, power |-> None]) =>
              success
         /\ (TextQuery(t) /\ CatalogRows > 0 /\ ColumnsPresent(p)
               /\ Matching(p) = <<>>) =>
              success /\ r.recommendations = <<>>
         /\ (r.status = 500 /\ "error" \in DOMAIN r) =>
              /\ exc[t] # None
              /\ exc[t].raised_in \in {"parse_text_nlp", "recommend_machine"}
         /\ exc[t] # None => (r.status = 500 /\ "error" \in DOMAIN r)
         /\ r.status # 200 => "recommendations" \notin DOMAIN r

\* One request answered with the internal error (a KeyError of
\* recommend_machine), another answered 200 with no record because no row
\* of a non-empty catalog satisfies it.
C9_Witness ==
  /\ pc[1] = "responded"
  /\ response[1].status = 500
  /\ exc[1] # None
  /\ exc[1].raised_in = "recommend_machine"
  /\ pc[2] = "responded"
  /\ response[2].status = 200
  /\ response[2].recommendations = <<>>
  /\ CatalogRows > 0

\* --------------------------------------------- properties of the parsing
\* An integer or a decimal written in digits.
IsNumber(tok) ==
  /\ tok # <<>>
  /\ \A i \in 1..Len(tok) : tok[i] \in Digits \cup {"."}
  /\ Cardinality({i \in 1..Len(tok) : tok[i] = "."}) <= 1
  /\ tok[1] \in Digits
  /\ tok[Len(tok)] \in Digits

\* The positions in the text of the budget phrases, the load phrases and
\* the power keywords.
BudgetPhrases(text) ==
  {i \in 1..(Len(text) - 1) :
     /\ IsNumber(text[i])
     /\ StrLower(text[i + 1]) \in {W_lakh, W_lakhs, W_lac}}
LoadPhrases(text) ==
  {i \in 1..(Len(text) - 1) :
     /\ IsNumber(text[i])
     /\ StrLower(text[i + 1]) \in {W_ton, W_tons, W_t, W_tonne}}
PowerKeywords(text) ==
  {i \in 1..Len(text) : StrLower(text[i]) \in {W_diesel, W_electric, W_hybrid}}

First(S) == CHOOSE i \in S : \A j \in S : i <= j

RECURSIVE Pow10(_)
Pow10(n) == IF n = 0 THEN 1 ELSE 10 * Pow10(n - 1)

\* The value of a number written in digits, as a fraction.
DecimalValue(tok) ==
  LET dots == {i \in 1..Len(tok) : tok[i] = "."}
      decimals == IF dots = {} THEN 0 ELSE Len(tok) - First(dots)
  IN Frac(ToInt(Without(tok, {"."})), Pow10(decimals))

\* Thread t has parsed its text.
Parsed(t) == TextQuery(t) /\ parsed_params[t] # None

\* C6 as claimed: with several matches of one kind in the text, the field
\* is set from the first of them.
C6_FirstMatchWins ==
  \A t \in Threads :
    Parsed(t) =>
      LET text == query[t].val.text
          p == parsed_params[t]
          b == BudgetPhrases(text)
          l == LoadPhrases(text)
          w == PowerKeywords(text)
      IN /\ b # {} =>
              p.budget = parse_text_nlp(<<text[First(b)], text[First(b) + 1]>>).budget
         /\ l # {} =>
              p.load = parse_text_nlp(<<text[First(l)], text[First(l) + 1]>>).load
         /\ w # {} => p.power = Some(StrLower(text[First(w)]))

\* C7 as claimed: a budget phrase of a number v, integer or decimal, and
\* one of lakh/lakhs/lac gives budget = v * 100000 (the text holds one
\* budget phrase).
C7_BudgetIsValueTimesLakh ==
  \A t \in Threads :
    Parsed(t) =>
      LET text == query[t].val.text
          b == BudgetPhrases(text)
          v == DecimalValue(text[First(b)])
      IN Cardinality(b) = 1 =>
           /\ parsed_params[t].budget # None
           /\ Frac(parsed_params[t].budget.val, 1) = Frac(v.num * 100000, v.den)

\* C8: a field is None exactly when the text holds no phrase (keyword) of
\* its kind, so absence is never 0 or ""; and an extracted budget of 0 is
\* applied as the constraint price <= 0.
C8_NoneIffNoToken ==
  \A t \in Threads :
    /\ Parsed(t) =>
         LET text == query[t].val.text
             p == parsed_params[t]
         IN /\ p.budget = None <=> BudgetPhrases(text) = {}
            /\ p.load = None <=> LoadPhrases(text) = {}
            /\ p.power = None <=> PowerKeywords(text) = {}
    /\ (Returned(t) /\ parsed_params[t].budget = Some(0)) =>
         /\ \A k \in 1..Len(results[t].val) : results[t].val[k]["Price"] <= 0
         /\ Len(results[t].val) = Min(3, Len(Matching(parsed_params[t])))

\* "0 lakhs" alone, on a catalog with rows: the budget 0 is a constraint,
\* and no row is returned.
C8_Witness ==
  /\ Returned(1)
  /\ query[1].val.text = <<W_0, W_lakhs>>
  /\ parsed_params[1] = [budget |-> Some(0), load |-> None, power |-> None]
  /\ CatalogRows > 0
  /\ results[1] = Some(<<>>)

=============================================================================
